---------------------------- MODULE Spec2Model ----------------------------
(***************************************************************************)
(* Booking calendar (asemore/booking-app): the Beds24 normalizer            *)
(* (beds24API.js), the bookings endpoint (server.js) and the browser        *)
(* calendar with its lane layout (class BookingCalendar).                   *)
(*                                                                         *)
(* Conventions of the model                                                *)
(*  - A JavaScript Date is its time value, counted in MINUTES since the     *)
(*    Unix epoch (every quantity the code handles here is a whole number    *)
(*    of minutes; 32-bit integers cannot hold the millisecond count).       *)
(*    A Date-or-null is a sequence: <<>> is null, <<t>> is the Date t.      *)
(*  - A JavaScript string the code inspects (toLowerCase, includes) is a    *)
(*    sequence of one-character strings; Undefined stands for an absent     *)
(*    field.                                                                *)
(*  - A date text ("2024-03-15", an ISO timestamp, garbage, absent) is a    *)
(*    record [kind, y, m, d, min].                                          *)
(***************************************************************************)
EXTENDS Integers, Sequences, FiniteSets, TLC

VARIABLES
    tz,                 \* the browser's time zone (environment, fixed per run)
    currentDate,        \* BookingCalendar.currentDate
    bookings,           \* BookingCalendar.bookings
    rooms,              \* BookingCalendar.rooms
    filter,             \* BookingCalendar.filter
    selectedBookingId,  \* BookingCalendar.selectedBookingId
    calendar,           \* what renderCalendar last put into calendarEl
    fetchState,         \* loadBookings: "pending", "loaded" or "error"
    upstream,           \* the stays of the Beds24 feed the load was answered from
    selectedRoom,       \* BookingCalendar.selectedRoom (the room selector)
    details,            \* the details panel (detailsEl): hidden, or the booking shown
    resizeTimeout,      \* BookingCalendar.resizeTimeout: a timer id, 0 for null
    timers,             \* the browser's pending timers: [id, remaining ms]
    sinceResize,        \* ms gone by since the last viewport event while a timer waits
    burst,              \* viewport events since the last render a timer made
    input,              \* the argument ShowDate / Classify applies a function to
    output              \* its result: <<>> before the call, <<r>> after it

vars == <<tz, currentDate, bookings, rooms, filter, selectedBookingId,
          calendar, fetchState, upstream, selectedRoom, details, resizeTimeout,
          timers, sinceResize, burst, input, output>>

\* The fields of the resize debounce.
resizeVars == <<resizeTimeout, timers, sinceResize, burst>>

-----------------------------------------------------------------------------
(* Bounds of the model *)

\* Longest booking list one load delivers.
MaxBookings == 3

\* Furthest the window is navigated from the month the page opened on.
MaxMonthSteps == 1

\* Most viewport events that arrive before a resize timer fires.
MaxBurst == 2

-----------------------------------------------------------------------------
(* Generic helpers *)

Max(a, b) == IF a >= b THEN a ELSE b

Min(a, b) == IF a <= b THEN a ELSE b

\* Math.floor(a / b) and Math.ceil(a / b) for b > 0.
Floor(a, b) == a \div b

Ceil(a, b) == -((-a) \div b)

\* Math.round(a / b) for b > 0: the nearest integer, halves upwards.
Round(a, b) == (2 * a + b) \div (2 * b)

\* All sequences over S of length at most n.
BoundedSeq(S, n) == UNION {[1..k -> S] : k \in 0..n}

-----------------------------------------------------------------------------
(* JavaScript strings *)

Undefined == <<"undefined">>

EmptyStr == <<>>

UpperCase == <<"A","B","C","D","E","F","G","H","I","J","K","L","M",
               "N","O","P","Q","R","S","T","U","V","W","X","Y","Z">>

LowerCase == <<"a","b","c","d","e","f","g","h","i","j","k","l","m",
               "n","o","p","q","r","s","t","u","v","w","x","y","z">>

UpperSet == {UpperCase[i] : i \in 1..26}

LowerMap == [c \in UpperSet |-> LowerCase[CHOOSE i \in 1..26 : UpperCase[i] = c]]

LowerChar(c) == IF c \in UpperSet THEN LowerMap[c] ELSE c

\* String.prototype.toLowerCase
toLowerCase(s) == [i \in 1..Len(s) |-> LowerChar(s[i])]

\* String.prototype.includes
includes(s, sub) ==
    \E i \in 0..(Len(s) - Len(sub)) :
        \A j \in 1..Len(sub) : s[i + j] = sub[j]

\* JavaScript truthiness of a string-or-undefined.
Truthy(s) == s # Undefined /\ s # EmptyStr

\* a || b on strings
OrElse(a, b) == IF Truthy(a) THEN a ELSE b

Str_airbnb == <<"a","i","r","b","n","b">>
Str_booking == <<"b","o","o","k","i","n","g">>
Str_expedia == <<"e","x","p","e","d","i","a">>
Str_direct == <<"d","i","r","e","c","t">>
Str_pavlosol == <<"p","a","v","l","o","s","o","l">>
Str_app == <<"a","p","p">>
Str_website == <<"w","e","b","s","i","t","e">>
Str_all == <<"a","l","l">>
Str_jason == <<"j","a","s","o","n">>
Str_smile == <<"s","m","i","l","e">>
Str_maria == <<"m","a","r","i","a">>

-----------------------------------------------------------------------------
(* JavaScript Date: the proleptic Gregorian calendar and local time *)

MinutesPerDay == 24 * 60

\* Days from 1970-01-01 to the civil date y-m-d (m in 1..12; d may run past
\* the end of the month, as Date.UTC lets it).
DaysFromCivil(y, m, d) ==
    LET yy  == IF m <= 2 THEN y - 1 ELSE y
        era == yy \div 400
        yoe == yy - era * 400
        mp  == IF m > 2 THEN m - 3 ELSE m + 9
        doy == (153 * mp + 2) \div 5 + d - 1
        doe == yoe * 365 + yoe \div 4 - yoe \div 100 + doy
    IN  era * 146097 + doe - 719468

\* The civil date [y, m, d] of day number z: the inverse of DaysFromCivil.
CivilFromDays(z) ==
    LET zz  == z + 719468
        era == zz \div 146097
        doe == zz - era * 146097
        yoe == (doe - doe \div 1460 + doe \div 36524 - doe \div 146096) \div 365
        doy == doe - (365 * yoe + yoe \div 4 - yoe \div 100)
        mp  == (5 * doy + 2) \div 153
        d   == doy - (153 * mp + 2) \div 5 + 1
        m   == IF mp < 10 THEN mp + 3 ELSE mp - 9
    IN  [y |-> IF m <= 2 THEN yoe + era * 400 + 1 ELSE yoe + era * 400,
         m |-> m, d |-> d]

\* Date.UTC(y, m - 1, d, 0, min): m is the calendar month 1..12.
DateUTC(y, m, d, min) == DaysFromCivil(y, m, d) * MinutesPerDay + min

\* A time zone: the offset from UTC (minutes, east positive) in force before
\* the first listed transition, and the transitions [at |-> UTC time,
\* off |-> offset from then on] in ascending order.
Zone(std, transitions) ==
    [std |-> std, transitions |-> transitions,
     offsets |-> {std} \cup {transitions[i].off : i \in 1..Len(transitions)}]

Transition(y, m, d, utcMin, off) == [at |-> DateUTC(y, m, d, utcMin), off |-> off]

\* The zone's UTC offset at the time value t.
OffsetAt(zone, t) ==
    LET past == Cardinality({i \in 1..Len(zone.transitions) : zone.transitions[i].at <= t})
    IN  IF past = 0 THEN zone.std ELSE zone.transitions[past].off

\* The local wall-clock reading of t, as minutes since the local epoch.
LocalMinutes(zone, t) == t + OffsetAt(zone, t)

\* The local calendar day (a day number) t falls on: getFullYear/getMonth/getDate.
LocalDay(zone, t) == LocalMinutes(zone, t) \div MinutesPerDay

\* The time value whose local reading is `local` (new Date(y, m, d, ...),
\* setHours, setDate): the earliest such time; in a skipped hour, the reading
\* taken with the offset in force before the gap.
FromLocal(zone, local) ==
    LET hits == {local - o : o \in zone.offsets}
        ok   == {u \in hits : LocalMinutes(zone, u) = local}
    IN  IF ok # {} THEN CHOOSE u \in ok : \A v \in ok : u <= v
        ELSE local - OffsetAt(zone, local - zone.std - MinutesPerDay)

\* new Date(y, m - 1, d): local midnight of a civil date.
LocalMidnight(zone, y, m, d) == FromLocal(zone, DaysFromCivil(y, m, d) * MinutesPerDay)

\* date.setDate(date.getDate() + n): n local calendar days on, same wall-clock time.
AddLocalDays(zone, t, n) == FromLocal(zone, LocalMinutes(zone, t) + n * MinutesPerDay)

\* date.setHours(0, 0, 0, 0)
StartOfLocalDay(zone, t) == FromLocal(zone, LocalDay(zone, t) * MinutesPerDay)

\* Zones of the model, with their transitions between late 2023 and mid 2025.
\* Europe/Athens (where the property is) and Pacific/Auckland change their
\* offset twice a year; the others never do.
ZoneUTC == Zone(0, <<>>)

ZoneAthens ==
    Zone(120, << Transition(2024, 3, 31, 60, 180), Transition(2024, 10, 27, 60, 120),
                 Transition(2025, 3, 30, 60, 180) >>)

ZoneAuckland ==
    Zone(780, << Transition(2024, 4, 6, 14 * 60, 720), Transition(2024, 9, 28, 14 * 60, 780),
                 Transition(2025, 4, 5, 14 * 60, 720) >>)

\* A zone that keeps one offset all year, h hours east of UTC.
FixedZone(h) == Zone(h * 60, <<>>)

\* Date-or-null
NullDate == <<>>

DateOf(t) == <<t>>

getTime(date) == date[1]

\* Date texts.
AbsentText == [kind |-> "absent", y |-> 0, m |-> 0, d |-> 0, min |-> 0]

GarbageText == [kind |-> "garbage", y |-> 0, m |-> 0, d |-> 0, min |-> 0]

\* "YYYY-MM-DD"
DateText(y, m, d) == [kind |-> "date", y |-> y, m |-> m, d |-> d, min |-> 0]

\* "YYYY-MM-DDTHH:MM:00.000Z", min = 60 * HH + MM
IsoText(y, m, d, min) == [kind |-> "iso", y |-> y, m |-> m, d |-> d, min |-> min]

\* a || b on date texts (a missing text is falsy)
OrText(a, b) == IF a.kind # "absent" THEN a ELSE b

\* Date.prototype.toISOString: the UTC reading of the time value.
toISOString(t) ==
    LET c == CivilFromDays(t \div MinutesPerDay)
    IN  IsoText(c.y, c.m, c.d, t % MinutesPerDay)

-----------------------------------------------------------------------------
(* beds24API.js: class Beds24API *)

\* Beds24API.determineSource with the toLowerCase calls left out.
determineSourceCaseSensitive(booking) ==
    LET referer == OrElse(OrElse(booking.referer, booking.channel), EmptyStr)
        source  == OrElse(OrElse(booking.source, booking.bookingSource), EmptyStr)
        channel == OrElse(booking.channel, EmptyStr)
    IN  IF includes(referer, Str_airbnb) \/ includes(source, Str_airbnb) THEN Str_airbnb
        ELSE IF includes(referer, Str_booking) \/ includes(source, Str_booking) THEN Str_booking
        ELSE IF includes(referer, Str_expedia) \/ includes(source, Str_expedia) THEN Str_expedia
        ELSE IF \/ channel = Str_direct
                \/ includes(referer, Str_direct)
                \/ includes(source, Str_direct)
                \/ includes(referer, Str_pavlosol)
                \/ includes(referer, Str_app)
                \/ includes(channel, Str_website)
             THEN Str_direct
        ELSE OrElse(OrElse(source, referer), Str_direct)

\* Beds24API.determineSource ending in source || 'direct', the referer not
\* passed through.
determineSourceNoReferer(booking) ==
    LET referer == toLowerCase(OrElse(OrElse(booking.referer, booking.channel), EmptyStr))
        source  == toLowerCase(OrElse(OrElse(booking.source, booking.bookingSource), EmptyStr))
        channel == toLowerCase(OrElse(booking.channel, EmptyStr))
    IN  IF includes(referer, Str_airbnb) \/ includes(source, Str_airbnb) THEN Str_airbnb
        ELSE IF includes(referer, Str_booking) \/ includes(source, Str_booking) THEN Str_booking
        ELSE IF includes(referer, Str_expedia) \/ includes(source, Str_expedia) THEN Str_expedia
        ELSE IF \/ channel = Str_direct
                \/ includes(referer, Str_direct)
                \/ includes(source, Str_direct)
                \/ includes(referer, Str_pavlosol)
                \/ includes(referer, Str_app)
                \/ includes(channel, Str_website)
             THEN Str_direct
        ELSE OrElse(source, Str_direct)

\* Beds24API.determineSource
determineSource(booking) ==
    LET referer == toLowerCase(OrElse(OrElse(booking.referer, booking.channel), EmptyStr))
        source  == toLowerCase(OrElse(OrElse(booking.source, booking.bookingSource), EmptyStr))
        channel == toLowerCase(OrElse(booking.channel, EmptyStr))
    IN  IF includes(referer, Str_airbnb) \/ includes(source, Str_airbnb) THEN Str_airbnb
        ELSE IF includes(referer, Str_booking) \/ includes(source, Str_booking) THEN Str_booking
        ELSE IF includes(referer, Str_expedia) \/ includes(source, Str_expedia) THEN Str_expedia
        ELSE IF \/ channel = Str_direct
                \/ includes(referer, Str_direct)
                \/ includes(source, Str_direct)
                \/ includes(referer, Str_pavlosol)
                \/ includes(referer, Str_app)
                \/ includes(channel, Str_website)
             THEN Str_direct
        ELSE OrElse(OrElse(source, referer), Str_direct)

\* Beds24API.parseDate
parseDate(dateString) ==
    CASE dateString.kind = "absent" -> NullDate
      [] dateString.kind = "date" ->
            DateOf(DateUTC(dateString.y, dateString.m, dateString.d, 12 * 60))
      [] dateString.kind = "iso" ->
            DateOf(DateUTC(dateString.y, dateString.m, dateString.d, dateString.min))
      [] OTHER -> NullDate

\* One record of Beds24API.processBookings' result (the fields the calendar
\* reads; guest name, price and party size are payload).
processBooking(booking) ==
    LET arrival   == OrText(OrText(booking.arrival, booking.arrivalDate), booking.firstNight)
        departure == OrText(OrText(booking.departure, booking.departureDate), booking.lastNight)
    IN  [id        |-> booking.bookId,
         startDate |-> parseDate(arrival),
         endDate   |-> parseDate(departure),
         source    |-> determineSource(booking),
         room      |-> booking.roomId]

\* processBookings that rejects a stay which does not end after it starts.
processBookingsValidated(data) ==
    SelectSeq([i \in 1..Len(data) |-> processBooking(data[i])],
              LAMBDA b : /\ b.startDate # NullDate
                         /\ b.endDate # NullDate
                         /\ getTime(b.endDate) > getTime(b.startDate))

\* Beds24API.processBookings
processBookings(data) == [i \in 1..Len(data) |-> processBooking(data[i])]

-----------------------------------------------------------------------------
(* server.js *)

\* ROOM_CONFIG, with the room IDs the environment configures.
ROOM_CONFIG ==
    << [name |-> Str_jason, roomId |-> 101],
       [name |-> Str_smile, roomId |-> 102],
       [name |-> Str_maria, roomId |-> 103] >>

\* Object.keys(ROOM_CONFIG)
RoomNames == [i \in 1..Len(ROOM_CONFIG) |-> ROOM_CONFIG[i].name]

\* roomId: process.env.X_ROOM_ID || null
NoRoomId == 0

\* What Beds24 answers to getBookingsByDateRange(.., roomId), processed: with
\* a roomId parameter that Beds24 honours, the records of that room; with no
\* roomId parameter (or one it does not apply), every record of the account.
getBookingsByDateRangeFrom(feed, roomId, honoured) ==
    processBookings(IF roomId # NoRoomId /\ honoured
                    THEN SelectSeq(feed, LAMBDA r : r.roomId = roomId)
                    ELSE feed)

getBookingsByDateRange(feed, roomId) == getBookingsByDateRangeFrom(feed, roomId, TRUE)

\* The room filter of fetchBeds24Bookings.
roomFilter(roomConfig, booking) ==
    IF roomConfig.roomId = NoRoomId THEN TRUE
    ELSE booking.room = roomConfig.roomId

\* fetchBeds24Bookings, one room: the room filter and the JSON shape.
roomBookingsFrom(roomConfig, feed, honoured) ==
    LET fetched == getBookingsByDateRangeFrom(feed, roomConfig.roomId, honoured)
        mine    == SelectSeq(fetched, LAMBDA b : roomFilter(roomConfig, b))
    IN  [i \in 1..Len(mine) |->
            [id        |-> mine[i].id,
             source    |-> mine[i].source,
             room      |-> roomConfig.name,
             startDate |-> IF mine[i].startDate # NullDate
                           THEN toISOString(getTime(mine[i].startDate))
                           ELSE AbsentText,
             endDate   |-> IF mine[i].endDate # NullDate
                           THEN toISOString(getTime(mine[i].endDate))
                           ELSE AbsentText]]

roomBookingsOf(roomConfig, feed) == roomBookingsFrom(roomConfig, feed, TRUE)

\* fetchBeds24Bookings: allBookings after the rooms i..3 have been fetched,
\* when getBookings throws for the rooms in `down` (the loop's catch logs the
\* error and goes on to the next room).
RECURSIVE fetchRooms(_, _, _, _, _)
fetchRooms(config, i, feed, down, honoured) ==
    IF i > Len(config) THEN <<>>
    ELSE (IF i \in down THEN <<>> ELSE roomBookingsFrom(config[i], feed, honoured))
         \o fetchRooms(config, i + 1, feed, down, honoured)

\* fetchBeds24Bookings with every room's fetch answered.
fetchRoomsFrom(i, feed) == fetchRooms(ROOM_CONFIG, i, feed, {}, TRUE)

fetchBeds24Bookings(feed) == fetchRoomsFrom(1, feed)

\* GET /api/bookings with a token configured: the JSON body.
apiBookings(feed) ==
    [success  |-> TRUE,
     bookings |-> fetchBeds24Bookings(feed),
     rooms    |-> RoomNames]

-----------------------------------------------------------------------------
(* class BookingCalendar (the browser) *)

timelineDays == 365

\* selectedBookingId = null
NoSelection == 0

\* getMsPerDay, in minutes
getMsPerDay == MinutesPerDay

\* parseIsoDate: a text that starts YYYY-MM-DD becomes noon UTC of that date.
parseIsoDate(value) ==
    CASE value.kind = "absent" -> NullDate
      [] value.kind \in {"date", "iso"} ->
            DateOf(DateUTC(value.y, value.m, value.d, 12 * 60))
      [] OTHER -> NullDate

\* normalizeDate: local midnight of the day the date falls on.
normalizeDate(zone, value) ==
    IF value = NullDate THEN NullDate
    ELSE DateOf(StartOfLocalDay(zone, getTime(value)))

\* getFilteredBookings
getFilteredBookings(all, flt) ==
    SelectSeq(all, LAMBDA b : flt = Str_all \/ b.source = flt)

\* A sort by check-in that puts an element behind the ones it ties with.
RECURSIVE sortTiesReversed(_)
sortTiesReversed(s) ==
    IF s = <<>> THEN <<>>
    ELSE LET rest == sortTiesReversed(Tail(s))
             b    == Head(s)
             pos  == {i \in 1..Len(rest) :
                         getTime(b.checkIn) - getTime(rest[i].checkIn) >= 0}
             k    == IF pos = {} THEN 0 ELSE CHOOSE i \in pos : \A j \in pos : j <= i
         IN  SubSeq(rest, 1, k) \o <<b>> \o SubSeq(rest, k + 1, Len(rest))

\* Array.prototype.sort with (a, b) => a.checkIn - b.checkIn: a stable sort.
\* Each element is put behind the sorted rest's elements that are strictly
\* earlier, so equal keys keep their input order.
RECURSIVE sortByCheckIn(_)
sortByCheckIn(s) ==
    IF s = <<>> THEN <<>>
    ELSE LET rest == sortByCheckIn(Tail(s))
             b    == Head(s)
             \* b goes before every element it does not exceed
             pos  == {i \in 1..Len(rest) :
                         getTime(b.checkIn) - getTime(rest[i].checkIn) > 0}
             k    == IF pos = {} THEN 0 ELSE CHOOSE i \in pos : \A j \in pos : j <= i
         IN  SubSeq(rest, 1, k) \o <<b>> \o SubSeq(rest, k + 1, Len(rest))

\* A bar laid out from the check-in and check-out alone, the window ignored.
barUnclipped(booking, gridStart, gridEndExclusive, totalDays) ==
    LET startOffset == Floor(getTime(booking.checkIn) - gridStart, getMsPerDay)
        endOffset   == Ceil(getTime(booking.checkOut) - gridStart, getMsPerDay)
    IN  [startOffset |-> startOffset,
         endOffset   |-> endOffset,
         duration    |-> endOffset - startOffset,
         skipped     |-> getTime(booking.checkOut) <= getTime(booking.checkIn)]

\* A bar clipped to the window as renderRoomRow clips it, but never left out.
barNeverSkipped(booking, gridStart, gridEndExclusive, totalDays) ==
    LET barStartTime == Max(getTime(booking.checkIn), gridStart)
        barEndTime   == Min(getTime(booking.checkOut), gridEndExclusive)
        startOffset  == Max(0, Floor(barStartTime - gridStart, getMsPerDay))
        endOffset    == Max(startOffset,
                            Min(totalDays, Ceil(barEndTime - gridStart, getMsPerDay)))
    IN  [startOffset |-> startOffset,
         endOffset   |-> endOffset,
         duration    |-> endOffset - startOffset,
         skipped     |-> FALSE]

\* renderRoomRow's forEach body up to the lane search: the bar's offsets, and
\* whether one of the three early returns leaves the booking out.
barOf(booking, gridStart, gridEndExclusive, totalDays) ==
    LET msPerDay     == getMsPerDay
        barStartTime == Max(getTime(booking.checkIn), gridStart)
        barEndTime   == Min(getTime(booking.checkOut), gridEndExclusive)
        startOffset  == Max(0, Floor(barStartTime - gridStart, msPerDay))
        rawEndOffset == Ceil(barEndTime - gridStart, msPerDay)
        endOffset    == Max(startOffset, Min(totalDays, rawEndOffset))
        duration     == endOffset - startOffset
    IN  [startOffset |-> startOffset,
         endOffset   |-> endOffset,
         duration    |-> duration,
         skipped     |-> \/ barEndTime <= barStartTime
                         \/ startOffset >= totalDays
                         \/ duration <= 0]

\* Every bar in the first lane.
laneAlwaysFirst(laneEndOffsets, startOffset) == 1

\* Every bar in a lane of its own.
laneAlwaysNew(laneEndOffsets, startOffset) == Len(laneEndOffsets) + 1

\* The last of the existing lanes that is free, else a new lane.
laneLastFree(laneEndOffsets, startOffset) ==
    LET free == {k \in 1..Len(laneEndOffsets) : laneEndOffsets[k] <= startOffset}
    IN  IF free = {} THEN Len(laneEndOffsets) + 1
        ELSE CHOOSE k \in free : \A j \in free : k >= j

\* renderRoomRow's while loop: the first lane that is unused or whose last bar
\* ends at or before startOffset.  Lane k of the code is number k + 1 here.
laneIndexFor(laneEndOffsets, startOffset) ==
    LET busy == {k \in 1..Len(laneEndOffsets) : laneEndOffsets[k] > startOffset}
        free == (1..(Len(laneEndOffsets) + 1)) \ busy
    IN  CHOOSE k \in free : \A j \in free : k <= j

\* renderRoomRow's forEach from booking i on: laneEndOffsets and layoutBookings.
RECURSIVE layoutFrom(_, _, _, _, _, _, _)
layoutFrom(roomBookings, i, gridStart, gridEndExclusive, totalDays, laneEndOffsets, layoutBookings) ==
    IF i > Len(roomBookings)
    THEN [laneEndOffsets |-> laneEndOffsets, layoutBookings |-> layoutBookings]
    ELSE
      LET booking == roomBookings[i]
          bar     == barOf(booking, gridStart, gridEndExclusive, totalDays)
          lane    == laneIndexFor(laneEndOffsets, bar.startOffset)
      IN  IF bar.skipped
          THEN layoutFrom(roomBookings, i + 1, gridStart, gridEndExclusive,
                          totalDays, laneEndOffsets, layoutBookings)
          ELSE layoutFrom(roomBookings, i + 1, gridStart, gridEndExclusive, totalDays,
                          IF lane > Len(laneEndOffsets)
                          THEN Append(laneEndOffsets, bar.endOffset)
                          ELSE [laneEndOffsets EXCEPT ![lane] = bar.endOffset],
                          Append(layoutBookings,
                                 [id          |-> booking.id,
                                  checkIn     |-> getTime(booking.checkIn),
                                  checkOut    |-> getTime(booking.checkOut),
                                  startOffset |-> bar.startOffset,
                                  duration    |-> bar.duration,
                                  laneIndex   |-> lane - 1]))

\* The vertical measures of a room row, in px.
laneSpacing == 38
barHeight == 30
baseTop == 15

\* A row that keeps the height of a single lane however many it has.
calendarHeightOneLane(lanes) == baseTop * 2 + barHeight

\* calendarHeight: the min-height of a row whose layout used `lanes` lanes.
calendarHeight(lanes) ==
    LET laneCount == Max(1, lanes)
    IN  Max(60, baseTop * 2 + barHeight + (laneCount - 1) * laneSpacing)

\* top of a bar
barTop(laneIndex) == baseTop + laneIndex * laneSpacing

\* renderRoomRow: the room's bars, its lanes, its height and the number of
\* day columns.
renderRoomRow(zone, roomName, list, startDate, endDate) ==
    LET wanted   == toLowerCase(roomName)
        ofRoom   == SelectSeq(list, LAMBDA b : toLowerCase(b.room) = wanted)
        withDays == [i \in 1..Len(ofRoom) |->
                        [id       |-> ofRoom[i].id,
                         checkIn  |-> normalizeDate(zone, ofRoom[i].startDate),
                         checkOut |-> normalizeDate(zone, ofRoom[i].endDate)]]
        dated    == SelectSeq(withDays, LAMBDA b : b.checkIn # NullDate /\ b.checkOut # NullDate)
        roomBookings == sortByCheckIn(dated)
        msPerDay == getMsPerDay
        gridStart == getTime(normalizeDate(zone, DateOf(startDate)))
        gridEnd   == getTime(normalizeDate(zone, DateOf(endDate)))
        gridEndExclusive == AddLocalDays(zone, gridEnd, 1)
        totalDays == Max(0, Round(gridEndExclusive - gridStart, msPerDay))
        laid      == layoutFrom(roomBookings, 1, gridStart, gridEndExclusive, totalDays, <<>>, <<>>)
    IN  [room      |-> roomName,
         totalDays |-> totalDays,
         lanes     |-> Len(laid.laneEndOffsets),
         calendarHeight |-> calendarHeight(Len(laid.laneEndOffsets)),
         bars      |-> [i \in 1..Len(laid.layoutBookings) |->
                          [id          |-> laid.layoutBookings[i].id,
                           checkIn     |-> laid.layoutBookings[i].checkIn,
                           checkOut    |-> laid.layoutBookings[i].checkOut,
                           startOffset |-> laid.layoutBookings[i].startOffset,
                           duration    |-> laid.layoutBookings[i].duration,
                           laneIndex   |-> laid.layoutBookings[i].laneIndex,
                           top         |-> barTop(laid.layoutBookings[i].laneIndex)]]]

\* A render that keeps whatever is selected.
renderedSelectionKept(list, flt, selected) == selected

\* renderCalendar: the selection it keeps and the rows it writes.
renderedSelection(list, flt, selected) ==
    IF selected # NoSelection /\ ~\E i \in 1..Len(getFilteredBookings(list, flt)) :
                          getFilteredBookings(list, flt)[i].id = selected
    THEN NoSelection ELSE selected

renderedRows(zone, list, roomList, flt, current) ==
    LET startDate == getTime(normalizeDate(zone, DateOf(current)))
        endDate   == AddLocalDays(zone, startDate, timelineDays - 1)
        filtered  == getFilteredBookings(list, flt)
    IN  [r \in 1..Len(roomList) |->
            renderRoomRow(zone, roomList[r], filtered, startDate, endDate)]

-----------------------------------------------------------------------------
(* The environment: Beds24 feeds, time zones, the day the page is opened *)

\* A raw Beds24 record: booking number i of a feed, for the stay `stay`.
RawBooking(i, stay) ==
    [bookId        |-> i,
     roomId        |-> stay.roomId,
     arrival       |-> stay.arrival,
     arrivalDate   |-> AbsentText,
     firstNight    |-> AbsentText,
     departure     |-> stay.departure,
     departureDate |-> AbsentText,
     lastNight     |-> AbsentText,
     referer       |-> stay.referer,
     channel       |-> Undefined,
     source        |-> Undefined,
     bookingSource |-> Undefined]

Stay(roomId, arrival, departure, referer) ==
    [roomId |-> roomId, arrival |-> arrival, departure |-> departure, referer |-> referer]

\* The stays a feed is drawn from.  Against the windows that open on
\* 2023-12-01, 2024-01-01 and 2024-02-01 they are: inside, back to back
\* (before and after a clock change), overlapping, tied on the check-in day,
\* given with a time of day, across the window's first and its last day,
\* wholly before and wholly after it, of zero and of negative length,
\* without a departure, and in another room.
Stays ==
    << Stay(101, DateText(2024, 1, 1),  DateText(2024, 1, 10), Str_airbnb),
       Stay(101, DateText(2024, 1, 10), DateText(2024, 4, 10), Str_booking),
       Stay(101, DateText(2024, 4, 10), DateText(2025, 1, 5),  Str_airbnb),
       Stay(101, IsoText(2024, 1, 5, 22 * 60 + 30), IsoText(2024, 1, 9, 8 * 60), Str_airbnb),
       Stay(101, DateText(2024, 1, 5),  DateText(2024, 2, 3),  Undefined),
       Stay(101, DateText(2024, 1, 10), DateText(2024, 1, 10), Str_airbnb),
       Stay(101, DateText(2024, 1, 12), DateText(2024, 1, 8),  Str_booking),
       Stay(101, DateText(2024, 1, 7),  AbsentText,            Str_airbnb),
       Stay(102, DateText(2024, 1, 3),  DateText(2024, 1, 8),  Str_airbnb),
       Stay(101, DateText(2025, 3, 10), DateText(2025, 3, 14), Str_booking) >>

\* The feed that lists the stays s, numbered in order.
Feed(s) == [i \in 1..Len(s) |-> RawBooking(i, s[i])]

\* The feeds of a load: up to MaxBookings different stays, listed in the
\* order of Stays or in the reverse of it.
Feeds ==
    LET picks == {p \in BoundedSeq(1..Len(Stays), MaxBookings) :
                    \/ \A i, j \in 1..Len(p) : i < j => p[i] < p[j]
                    \/ \A i, j \in 1..Len(p) : i < j => p[i] > p[j]}
    IN  {[i \in 1..Len(p) |-> Stays[p[i]]] : p \in picks}

\* The browser's zone in the layout runs.
LayoutZones == {ZoneAthens, ZoneAuckland}

\* The day the page is opened (constructor: the first of today's month).
Today == DateText(2024, 1, 15)

\* Months since year 0 of the local month t falls in.
MonthIndex(zone, t) ==
    LET c == CivilFromDays(LocalDay(zone, t)) IN c.y * 12 + c.m - 1

-----------------------------------------------------------------------------
(* The calendar's handlers *)

\* new BookingCalendar(): init() has run and the fetch of loadBookings is
\* in flight.
InitCalendar ==
    /\ currentDate = LocalMidnight(tz, Today.y, Today.m, 1)
    /\ bookings = <<>>
    /\ rooms = <<Str_jason, Str_smile, Str_maria>>
    /\ filter = Str_all
    /\ selectedBookingId = NoSelection
    /\ calendar = <<>>
    /\ fetchState = "pending"
    /\ upstream = <<>>
    /\ selectedRoom = Str_jason
    /\ details = [hidden |-> TRUE, booking |-> NoSelection]
    /\ resizeTimeout = 0
    /\ timers = {}
    /\ sinceResize = 0
    /\ burst = 0

\* findBookingById: the booking of this.bookings with that id, or none.
findBookingById(list, bookingId) ==
    IF bookingId = NoSelection THEN <<>>
    ELSE LET hits == SelectSeq(list, LAMBDA b : b.id = bookingId)
         IN  IF hits = <<>> THEN <<>> ELSE <<Head(hits)>>

\* renderBookingDetails: the panel is hidden when nothing is selected or the
\* selected booking is not among this.bookings, else it shows that booking.
renderBookingDetails(list, selected) ==
    IF selected = NoSelection \/ findBookingById(list, selected) = <<>>
    THEN [hidden |-> TRUE,  booking |-> NoSelection]
    ELSE [hidden |-> FALSE, booking |-> selected]

\* The time value of an Invalid Date (NaN), which no date of the model has.
InvalidDate == -1

\* renderCalendar with the fields as they are after the handler's own updates.
\* With an Invalid Date as currentDate, normalizeDate gives null for the
\* window start and renderMonthLabels throws on it (getTotalDays calls
\* null.getTime()): the selection has been checked by then, the calendar and
\* the details panel are left as they were.
renderCalendar(list, roomList, flt, current) ==
    /\ selectedBookingId' = renderedSelection(list, flt, selectedBookingId)
    /\ IF current = InvalidDate
       THEN UNCHANGED <<calendar, details>>
       ELSE /\ calendar' = renderedRows(tz, list, roomList, flt, current)
            /\ details' = renderBookingDetails(list, renderedSelection(list, flt, selectedBookingId))

\* loadBookings after its awaits, answered by GET /api/bookings with success.
\* Its renderCalendar runs inside the try: when it throws (currentDate an
\* Invalid Date) the catch calls showError, which replaces the calendar's
\* markup by the error message.
LoadBookingsFrom(feeds) ==
    /\ fetchState = "pending"
    /\ \E feed \in feeds :
         LET data   == apiBookings(Feed(feed))
             loaded == [i \in 1..Len(data.bookings) |->
                          [id        |-> data.bookings[i].id,
                           source    |-> data.bookings[i].source,
                           room      |-> data.bookings[i].room,
                           startDate |-> parseIsoDate(data.bookings[i].startDate),
                           endDate   |-> parseIsoDate(data.bookings[i].endDate)]]
         IN  /\ data.success
             /\ upstream' = feed
             /\ bookings' = loaded
             /\ rooms' = data.rooms
             /\ selectedRoom' = IF \E i \in 1..Len(data.rooms) : data.rooms[i] = selectedRoom
                                THEN selectedRoom
                                ELSE IF data.rooms # <<>> THEN data.rooms[1] ELSE Undefined
             /\ IF currentDate = InvalidDate
                THEN /\ selectedBookingId' = renderedSelection(loaded, filter, selectedBookingId)
                     /\ calendar' = <<>>
                     /\ UNCHANGED details
                ELSE renderCalendar(loaded, data.rooms, filter, currentDate)
    /\ fetchState' = "loaded"
    /\ UNCHANGED <<tz, currentDate, filter, resizeVars, input, output>>

LoadBookings == LoadBookingsFrom(Feeds)

\* currentDate.setMonth(getMonth() + delta), then the first of that month.
monthChanged(zone, current, delta) ==
    IF current = InvalidDate THEN InvalidDate ELSE
    LET c     == CivilFromDays(LocalDay(zone, current))
        tod   == LocalMinutes(zone, current) % MinutesPerDay
        mi    == c.y * 12 + (c.m - 1) + delta
        moved == FromLocal(zone, DaysFromCivil(mi \div 12, (mi % 12) + 1, c.d) * MinutesPerDay + tod)
        n     == CivilFromDays(LocalDay(zone, moved))
    IN  LocalMidnight(zone, n.y, n.m, 1)

\* changeMonth(delta): the previous / next month buttons.
ChangeMonth(delta) ==
    /\ LET next == monthChanged(tz, currentDate, delta)
       IN  /\ \/ next = InvalidDate
              \/ MonthIndex(tz, next) - (Today.y * 12 + Today.m - 1) \in -MaxMonthSteps..MaxMonthSteps
           /\ currentDate' = next
           /\ renderCalendar(bookings, rooms, filter, next)
    /\ UNCHANGED <<tz, bookings, rooms, selectedRoom, filter, fetchState, upstream, resizeVars,
                   input, output>>

-----------------------------------------------------------------------------
(* The calendar laying out what a load delivered, under month navigation *)

InitLayout ==
    /\ tz \in LayoutZones
    /\ InitCalendar
    /\ input = <<>>
    /\ output = <<>>

NextLayout ==
    \/ LoadBookings
    \/ ChangeMonth(-1)
    \/ ChangeMonth(1)

SpecLayout == InitLayout /\ [][NextLayout]_vars

-----------------------------------------------------------------------------
(* What the calendar shows, read back from the state *)

\* The rows on screen.
Rows == 1..Len(calendar)

\* The window the rows were laid out against: gridStart and gridEndExclusive.
windowStart == currentDate

windowEndExclusive == AddLocalDays(tz, currentDate, timelineDays)

\* The local calendar day, as a day number, of the time value t.
dayOf(t) == LocalDay(tz, t)

\* The loaded bookings of the room of row r, in list order.
RoomBookings(r) == SelectSeq(bookings, LAMBDA b : b.room = calendar[r].room)

\* The bookings that have both dates.
Dated(list) == SelectSeq(list, LAMBDA b : b.startDate # NullDate /\ b.endDate # NullDate)

\* The local midnights of a dated booking's check-in and check-out days.
checkInOf(b) == getTime(normalizeDate(tz, b.startDate))

checkOutOf(b) == getTime(normalizeDate(tz, b.endDate))

\* The bars of row r that show booking b.
BarsOf(r, b) == {i \in 1..Len(calendar[r].bars) : calendar[r].bars[i].id = b.id}

\* The half-open day intervals of two bars have no day in common.
Disjoint(x, y) ==
    \/ x.startOffset + x.duration <= y.startOffset
    \/ y.startOffset + y.duration <= x.startOffset

\* The most bars of a row that contain one common day.  Among the days that
\* most bars contain there is the first day of one of them, so only the
\* bars' first days are counted.
MaxOverlap(bars) ==
    LET at(d) == Cardinality({j \in 1..Len(bars) :
                     bars[j].startOffset <= d /\ d < bars[j].startOffset + bars[j].duration})
        counts == {at(bars[i].startOffset) : i \in 1..Len(bars)}
    IN  IF counts = {} THEN 0 ELSE CHOOSE n \in counts : \A k \in counts : k <= n

\* The nights of an upstream stay that gives both dates.
StayNights(stay) ==
    DaysFromCivil(stay.departure.y, stay.departure.m, stay.departure.d)
        - DaysFromCivil(stay.arrival.y, stay.arrival.m, stay.arrival.d)

HasBothDates(stay) ==
    stay.arrival.kind \in {"date", "iso"} /\ stay.departure.kind \in {"date", "iso"}

-----------------------------------------------------------------------------
(* Claims about the timeline layout *)

\* C1: in every row, two bars with the same laneIndex have disjoint half-open
\* day intervals [startOffset, startOffset + duration).
NoSameLaneOverlap ==
    \A r \in Rows :
        \A i, j \in 1..Len(calendar[r].bars) :
            (i # j /\ calendar[r].bars[i].laneIndex = calendar[r].bars[j].laneIndex)
                => Disjoint(calendar[r].bars[i], calendar[r].bars[j])

\* C1 witness: a lane holds two bars, the second starting on the day the
\* first ends, while another lane of the row is in use.
LaneSharedByAdjacentBars ==
    \E r \in Rows :
        /\ calendar[r].lanes >= 2
        /\ \E i, j \in 1..Len(calendar[r].bars) :
              /\ calendar[r].bars[i].laneIndex = calendar[r].bars[j].laneIndex
              /\ calendar[r].bars[i].startOffset + calendar[r].bars[i].duration
                    = calendar[r].bars[j].startOffset

\* C2: the number of lanes of a row equals the largest number of its bars
\* that contain a common day, and the lanes in use are exactly 0 .. lanes - 1.
LanesEqualMaxOverlap ==
    \A r \in Rows :
        /\ calendar[r].lanes = MaxOverlap(calendar[r].bars)
        /\ {calendar[r].bars[i].laneIndex : i \in 1..Len(calendar[r].bars)}
              = 0..(calendar[r].lanes - 1)

\* C2 witness: a row of three bars that needs only two lanes, and so has
\* given a lane to a second bar.
ThreeBarsInTwoLanes ==
    \E r \in Rows : Len(calendar[r].bars) = 3 /\ calendar[r].lanes = 2

\* C3: when a room holds just two bookings, both shown, and the first one's
\* check-out day is the second one's check-in day, both bars are in lane 0.
BackToBackShareLane ==
    \A r \in Rows :
        (/\ Len(RoomBookings(r)) = 2
         /\ Len(calendar[r].bars) = 2
         /\ calendar[r].bars[1].checkOut = calendar[r].bars[2].checkIn)
            => /\ calendar[r].bars[1].laneIndex = 0
               /\ calendar[r].bars[2].laneIndex = 0

\* C4: a bar starts as many local calendar days after the window start as the
\* later of check-in and window start lies after it, and ends as many days
\* after it as the earlier of check-out and the day after the window end.
OffsetsCountCalendarDays ==
    \A r \in Rows :
        \A i \in 1..Len(calendar[r].bars) :
            LET bar  == calendar[r].bars[i]
                from == Max(bar.checkIn, windowStart)
                to   == Min(bar.checkOut, windowEndExclusive)
            IN  /\ bar.startOffset = dayOf(from) - dayOf(windowStart)
                /\ bar.startOffset + bar.duration = dayOf(to) - dayOf(windowStart)

\* C5: every bar has laneIndex >= 0, startOffset >= 0, duration >= 1 and
\* ends at or before the last day column of its row.
BarsStayInsideTrack ==
    \A r \in Rows :
        \A i \in 1..Len(calendar[r].bars) :
            /\ calendar[r].bars[i].laneIndex >= 0
            /\ calendar[r].bars[i].startOffset >= 0
            /\ calendar[r].bars[i].duration >= 1
            /\ calendar[r].bars[i].startOffset + calendar[r].bars[i].duration
                  <= calendar[r].totalDays

\* C5 witness: a bar of a stay that runs past the window is cut off at the
\* last day column.
BarCutAtWindowEnd ==
    \E r \in Rows :
        \E i \in 1..Len(calendar[r].bars) :
            /\ calendar[r].bars[i].checkOut > windowEndExclusive
            /\ calendar[r].bars[i].startOffset + calendar[r].bars[i].duration
                  = calendar[r].totalDays

\* A dated booking that ends on or before the window start, or starts after
\* the window end.
OutsideWindow(b) ==
    checkOutOf(b) <= windowStart \/ checkInOf(b) >= windowEndExclusive

\* C6: a booking outside the window has no bar, the rows are the ones the
\* bookings without it give, and a booking that ends after it starts and
\* meets the window has exactly one bar.
OutsideHiddenInsideShownOnce ==
    fetchState = "loaded" =>
        /\ \A r \in Rows :
              \A k \in 1..Len(Dated(RoomBookings(r))) :
                  LET b == Dated(RoomBookings(r))[k]
                  IN  /\ OutsideWindow(b) => BarsOf(r, b) = {}
                      /\ (/\ checkInOf(b) < checkOutOf(b)
                          /\ checkInOf(b) < windowEndExclusive
                          /\ checkOutOf(b) > windowStart)
                             => Cardinality(BarsOf(r, b)) = 1
        /\ calendar = renderedRows(tz,
                          SelectSeq(bookings, LAMBDA b :
                              ~(b.startDate # NullDate /\ b.endDate # NullDate
                                  /\ OutsideWindow(b))),
                          rooms, filter, currentDate)

\* C6 witness: a room with a booking that ended before the window, one that
\* starts after it, and a bar.
BookingsBeforeAndAfterWindow ==
    \E r \in Rows :
        /\ calendar[r].bars # <<>>
        /\ \E k \in 1..Len(Dated(RoomBookings(r))) :
              checkOutOf(Dated(RoomBookings(r))[k]) <= windowStart
        /\ \E k \in 1..Len(Dated(RoomBookings(r))) :
              checkInOf(Dated(RoomBookings(r))[k]) >= windowEndExclusive

\* C7: a booking that ends on or before the day it starts has no bar, every
\* bar's check-out is after its check-in, and such a stay of the feed is
\* still in the loaded list, with both of its dates.
EmptyStaysKeptButNotShown ==
    fetchState = "loaded" =>
        /\ \A r \in Rows :
              /\ \A i \in 1..Len(calendar[r].bars) :
                    /\ calendar[r].bars[i].checkOut > calendar[r].bars[i].checkIn
                    /\ calendar[r].bars[i].duration > 0
              /\ \A k \in 1..Len(Dated(RoomBookings(r))) :
                    LET b == Dated(RoomBookings(r))[k]
                    IN  checkOutOf(b) <= checkInOf(b) => BarsOf(r, b) = {}
        /\ \A n \in 1..Len(upstream) :
              (HasBothDates(upstream[n]) /\ StayNights(upstream[n]) <= 0)
                 => \E k \in 1..Len(bookings) :
                       /\ bookings[k].id = n
                       /\ bookings[k].startDate # NullDate
                       /\ bookings[k].endDate # NullDate
                       /\ checkOutOf(bookings[k]) <= checkInOf(bookings[k])

\* C7 witness: a stay of no nights and a stay that ends before it starts were
\* loaded into a room that shows a bar.
EmptyStaysLoaded ==
    /\ fetchState = "loaded"
    /\ \E n \in 1..Len(upstream) : HasBothDates(upstream[n]) /\ StayNights(upstream[n]) = 0
    /\ \E n \in 1..Len(upstream) : HasBothDates(upstream[n]) /\ StayNights(upstream[n]) < 0
    /\ \E r \in Rows : calendar[r].bars # <<>> /\ Len(RoomBookings(r)) = 3

\* C8: the rows are the ones a fresh layout of the loaded bookings gives; the
\* bars of a row are in ascending check-in day, and bars with the same
\* check-in day are in list order, the earlier one in the lower lane.
LayoutRepeatableAndStable ==
    fetchState = "loaded" =>
        /\ calendar = renderedRows(tz, bookings, rooms, filter, currentDate)
        /\ \A r \in Rows :
              \A i, j \in 1..Len(calendar[r].bars) :
                  i < j =>
                     /\ calendar[r].bars[i].checkIn <= calendar[r].bars[j].checkIn
                     /\ calendar[r].bars[i].checkIn = calendar[r].bars[j].checkIn
                           => /\ calendar[r].bars[i].id < calendar[r].bars[j].id
                              /\ calendar[r].bars[i].laneIndex < calendar[r].bars[j].laneIndex

\* C8 witness: a row in which the sort moved a later-listed booking forward
\* and which shows two bars with the same check-in day.
SortedRowWithTie ==
    \E r \in Rows :
        /\ \E i, j \in 1..Len(calendar[r].bars) :
              i < j /\ calendar[r].bars[i].id > calendar[r].bars[j].id
        /\ \E i, j \in 1..Len(calendar[r].bars) :
              i < j /\ calendar[r].bars[i].checkIn = calendar[r].bars[j].checkIn

-----------------------------------------------------------------------------
(* A date-only string on its way from Beds24 to the screen *)

\* An empty day
NoDay == [y |-> 0, m |-> 0, d |-> 0]

\* fetchBeds24Bookings' startDate / endDate of a booking: the ISO text or null.
serialized(date) ==
    IF date # NullDate THEN toISOString(getTime(date)) ELSE AbsentText

\* The local calendar day the calendar lays a Beds24 date string out on:
\* parseDate on the server, toISOString into the JSON body, parseIsoDate in
\* loadBookings, normalizeDate in renderRoomRow.
displayedDay(zone, dateString) ==
    LET shown == normalizeDate(zone, parseIsoDate(serialized(parseDate(dateString))))
    IN  IF shown = NullDate THEN NoDay
        ELSE CivilFromDays(LocalDay(zone, getTime(shown)))

\* The browser's zone: every whole-hour offset from UTC-12 to UTC+14, and
\* two zones with daylight saving.
DateZones == {FixedZone(h) : h \in -12..14} \cup {ZoneAthens, ZoneAuckland}

\* Date-only strings: mid-month, the ends of months and of the year, a leap day.
DateStrings ==
    { DateText(2024, 3, 15), DateText(2024, 1, 1), DateText(2024, 2, 29),
      DateText(2024, 6, 30), DateText(2024, 12, 31) }

InitDates ==
    /\ tz \in DateZones
    /\ InitCalendar
    /\ input \in DateStrings
    /\ output = <<>>

\* The date string is parsed, sent, parsed again and snapped to its day.
ShowDate ==
    /\ output = <<>>
    /\ output' = <<displayedDay(tz, input)>>
    /\ UNCHANGED <<tz, currentDate, bookings, rooms, selectedRoom, filter, selectedBookingId,
                   calendar, fetchState, upstream, details, resizeVars, input>>

NextDates == ShowDate

SpecDates == InitDates /\ [][NextDates]_vars

\* C9: a date-only string is laid out on the calendar day it names, whatever
\* the browser's UTC offset.
DateOnlyKeepsItsDay ==
    output # <<>> => output[1] = [y |-> input.y, m |-> input.m, d |-> input.d]

-----------------------------------------------------------------------------
(* Beds24API.determineSource over the records it may be given *)

Str_Airbnb == <<"A","i","r","b","n","b">>
Str_BookingCom == <<"B","o","o","k","i","n","g",".","c","o","m">>
Str_agoda == <<"a","g","o","d","a">>
Str_Agoda == <<"A","g","o","d","a">>
Str_DirectMail == <<"D","i","r","e","c","t","-","m","a","i","l">>
Str_myapp == <<"m","y","a","p","p">>

\* What a record may carry in referer, channel, source and bookingSource.
SourceTexts ==
    {Undefined, EmptyStr, Str_direct, Str_Airbnb, Str_BookingCom, Str_expedia,
     Str_Agoda, Str_DirectMail, Str_myapp, Str_website}

SourceRecords ==
    [referer : SourceTexts, channel : SourceTexts,
     source : SourceTexts, bookingSource : SourceTexts]

InitSource ==
    /\ tz = ZoneUTC
    /\ InitCalendar
    /\ input \in SourceRecords
    /\ output = <<>>

\* determineSource is called on the record.
Classify ==
    /\ output = <<>>
    /\ output' = <<determineSource(input)>>
    /\ UNCHANGED <<tz, currentDate, bookings, rooms, selectedRoom, filter, selectedBookingId,
                   calendar, fetchState, upstream, details, resizeVars, input>>

NextSource == Classify

SpecSource == InitSource /\ [][NextSource]_vars

\* The platform keywords, in the order determineSource is said to try them.
Keywords == <<Str_airbnb, Str_booking, Str_expedia>>

\* The field's text contains the keyword, letter case aside.
Mentions(field, keyword) == includes(toLowerCase(OrElse(field, EmptyStr)), keyword)

\* Some field of the record mentions keyword number k.
KeywordInRecord(rec, k) ==
    \/ Mentions(rec.referer, Keywords[k])
    \/ Mentions(rec.channel, Keywords[k])
    \/ Mentions(rec.source, Keywords[k])
    \/ Mentions(rec.bookingSource, Keywords[k])

refererText(rec) == toLowerCase(OrElse(OrElse(rec.referer, rec.channel), EmptyStr))

sourceText(rec) == toLowerCase(OrElse(OrElse(rec.source, rec.bookingSource), EmptyStr))

channelText(rec) == toLowerCase(OrElse(rec.channel, EmptyStr))

\* No platform keyword is in the referer text or the source text.
NoKeywordMatches(rec) ==
    \A k \in 1..Len(Keywords) :
        ~includes(refererText(rec), Keywords[k]) /\ ~includes(sourceText(rec), Keywords[k])

\* Channel or referrer indicates a direct channel.
ChannelOrReferrerDirect(rec) ==
    \/ channelText(rec) = Str_direct
    \/ includes(channelText(rec), Str_website)
    \/ includes(refererText(rec), Str_direct)
    \/ includes(refererText(rec), Str_pavlosol)
    \/ includes(refererText(rec), Str_app)

-----------------------------------------------------------------------------
(* Beds24API.processBookings over a batch that may hold a malformed record *)

\* Longest batch processBookings is given.
MaxBatch == 3

\* A null entry of the bookings array.
NullEntry == [null |-> TRUE]

\* A field value that is truthy and no string (a number, an object).
NotAString == <<"number">>

\* determineSource throws a TypeError: the value toLowerCase is called on is
\* no string.
determineSourceThrows(booking) ==
    \/ OrElse(OrElse(booking.referer, booking.channel), EmptyStr) = NotAString
    \/ OrElse(OrElse(booking.source, booking.bookingSource), EmptyStr) = NotAString
    \/ OrElse(booking.channel, EmptyStr) = NotAString

\* The map callback of processBookings throws: a property of null is read,
\* or determineSource throws.
processBookingThrows(booking) ==
    booking = NullEntry \/ determineSourceThrows(booking)

\* processBookings as called: nothing catches what the callback throws, so
\* the first record that throws ends the call without a result.
processBookingsCall(data) ==
    IF \E i \in 1..Len(data) : processBookingThrows(data[i])
    THEN [threw |-> TRUE,  bookings |-> <<>>]
    ELSE [threw |-> FALSE, bookings |-> processBookings(data)]

\* The records of a batch: two good ones, one without dates, a null entry
\* and one whose referer is a number.
BatchRecords ==
    { RawBooking(1, Stay(101, DateText(2024, 1, 1), DateText(2024, 1, 10), Str_airbnb)),
      RawBooking(2, Stay(102, DateText(2024, 1, 3), DateText(2024, 1, 8), Undefined)),
      RawBooking(3, Stay(101, AbsentText, AbsentText, Str_booking)),
      NullEntry,
      RawBooking(5, Stay(101, DateText(2024, 1, 5), DateText(2024, 1, 9), NotAString)) }

InitBatch ==
    /\ tz = ZoneUTC
    /\ InitCalendar
    /\ input \in BoundedSeq(BatchRecords, MaxBatch)
    /\ output = <<>>

\* processBookings is called on the batch.
ProcessBatch ==
    /\ output = <<>>
    /\ output' = <<processBookingsCall(input)>>
    /\ UNCHANGED <<tz, currentDate, bookings, rooms, selectedRoom, filter, selectedBookingId,
                   calendar, fetchState, upstream, details, resizeVars, input>>

NextBatch == ProcessBatch

SpecBatch == InitBatch /\ [][NextBatch]_vars

\* A record of the batch that is malformed: null, without its dates, or with
\* a referer, channel or source that is no string.
Malformed(rec) ==
    \/ rec = NullEntry
    \/ processBookingThrows(rec)
    \/ rec.arrival = AbsentText
    \/ rec.departure = AbsentText

\* C12: a batch with one malformed record is processed without an exception
\* and the result holds the normalized booking of every other record.
BatchSurvivesMalformedRecord ==
    (/\ output # <<>>
     /\ Cardinality({i \in 1..Len(input) : Malformed(input[i])}) = 1)
        => /\ ~output[1].threw
           /\ \A i \in 1..Len(input) :
                 ~Malformed(input[i]) =>
                    \E k \in 1..Len(output[1].bookings) :
                        output[1].bookings[k] = processBooking(input[i])


-----------------------------------------------------------------------------
(* The page in use: load, navigation, filter, selection and resizing *)

\* The filter dropdown's options (README: All, Airbnb only, Booking.com only).
Filters == {Str_all, Str_airbnb, Str_booking}

\* The stays the page is loaded with in the interactive runs: an Airbnb
\* stay in January, a Booking.com stay, a direct stay, a stay of another room.
UiStays == <<Stays[1], Stays[2], Stays[5], Stays[9]>>

UiFeeds ==
    LET picks == {p \in BoundedSeq(1..Len(UiStays), MaxBookings) :
                    \A i, j \in 1..Len(p) : i < j => p[i] < p[j]}
    IN  {[i \in 1..Len(p) |-> UiStays[p[i]]] : p \in picks}

\* loadBookings when the response says success: false, or fetch rejects:
\* showError replaces the calendar's markup by an error message.
LoadBookingsFails ==
    /\ fetchState = "pending"
    /\ fetchState' = "error"
    /\ calendar' = <<>>
    /\ UNCHANGED <<tz, currentDate, bookings, rooms, selectedRoom, filter, selectedBookingId,
                   upstream, details, resizeVars, input, output>>

\* A click on a bar: handleCalendarClick, selectBookingById(bar.dataset.bookingId).
SelectBooking ==
    /\ \E bookingId \in UNION {{calendar[r].bars[i].id : i \in 1..Len(calendar[r].bars)} :
                                 r \in 1..Len(calendar)} :
         /\ findBookingById(bookings, bookingId) # <<>>
         /\ selectedBookingId' = bookingId
         /\ details' = renderBookingDetails(bookings, bookingId)
    /\ UNCHANGED <<tz, currentDate, bookings, rooms, selectedRoom, filter, calendar, fetchState,
                   upstream, resizeVars, input, output>>

\* The filter dropdown's change listener.
SetFilter(value) ==
    /\ filter' = value
    /\ renderCalendar(bookings, rooms, value, currentDate)
    /\ UNCHANGED <<tz, currentDate, bookings, rooms, selectedRoom, fetchState, upstream,
                   resizeVars, input, output>>

\* jumpToMonth(value): the month picker, value "YYYY-MM".
JumpToMonth(y, m) ==
    /\ LET next == LocalMidnight(tz, y, m, 1)
       IN  /\ currentDate' = next
           /\ renderCalendar(bookings, rooms, filter, next)
    /\ UNCHANGED <<tz, bookings, rooms, selectedRoom, filter, fetchState, upstream, resizeVars,
                   input, output>>

\* The months the picker is set to.
PickedMonths ==
    {mi \in (Today.y * 12 + Today.m - 1 - MaxMonthSteps)..(Today.y * 12 + Today.m - 1 + MaxMonthSteps) : TRUE}

\* setTimeout's delay in handleViewportChange.
resizeDelay == 150

\* A timer id no pending timer and no field holds.
freshTimerId(pending, held) ==
    CHOOSE n \in 1..(Cardinality(pending) + 2) :
        /\ n # held
        /\ \A t \in pending : t.id # n

\* clearTimeout(id).
clearTimeout(pending, id) == {t \in pending : t.id # id}

\* A handler that arms a new timer and leaves the pending one alone.
timersAfterResizeNoClear(pending, held) ==
    pending \cup {[id |-> freshTimerId(pending, held), remaining |-> resizeDelay]}

\* The pending timers after handleViewportChange.
timersAfterResize(pending, held) ==
    LET kept == IF held # 0 THEN clearTimeout(pending, held) ELSE pending
    IN  kept \cup {[id |-> freshTimerId(pending, held), remaining |-> resizeDelay]}

\* handleViewportChange: a resize or orientationchange event.
HandleViewportChange ==
    /\ burst < MaxBurst
    /\ timers' = timersAfterResize(timers, resizeTimeout)
    /\ resizeTimeout' = freshTimerId(timers, resizeTimeout)
    /\ sinceResize' = 0
    /\ burst' = burst + 1
    /\ UNCHANGED <<tz, currentDate, bookings, rooms, selectedRoom, filter, selectedBookingId,
                   calendar, fetchState, upstream, details, input, output>>

\* Time passing while a timer waits; no timer is passed over.
TickSteps == {50, 100}

Tick(d) ==
    /\ timers # {}
    /\ \A t \in timers : t.remaining >= d
    /\ timers' = {[id |-> t.id, remaining |-> t.remaining - d] : t \in timers}
    /\ sinceResize' = sinceResize + d
    /\ UNCHANGED <<tz, currentDate, bookings, rooms, selectedRoom, filter, selectedBookingId,
                   calendar, fetchState, upstream, details, resizeTimeout, burst,
                   input, output>>

\* The resize timer's callback: renderCalendar(); resizeTimeout keeps the id.
ResizeTimerFires ==
    /\ \E t \in timers :
         /\ t.remaining = 0
         /\ timers' = timers \ {t}
    /\ renderCalendar(bookings, rooms, filter, currentDate)
    /\ burst' = 0
    /\ UNCHANGED <<tz, currentDate, bookings, rooms, selectedRoom, filter, fetchState, upstream,
                   resizeTimeout, sinceResize, input, output>>

Init ==
    /\ tz = ZoneAthens
    /\ InitCalendar
    /\ input = <<>>
    /\ output = <<>>

Next ==
    \/ LoadBookingsFrom(UiFeeds)
    \/ LoadBookingsFails
    \/ ChangeMonth(-1)
    \/ ChangeMonth(1)
    \/ \E mi \in PickedMonths : JumpToMonth(mi \div 12, (mi % 12) + 1)
    \/ \E value \in Filters : SetFilter(value)
    \/ SelectBooking
    \/ HandleViewportChange
    \/ \E d \in TickSteps : Tick(d)
    \/ ResizeTimerFires

Spec == Init /\ [][Next]_vars


\* The bars drawn with the selected highlight (updateSelectedBookingHighlight).
HighlightedBars ==
    {<<r, i>> \in (1..Len(calendar)) \X (1..MaxBookings + 1) :
        /\ i <= Len(calendar[r].bars)
        /\ selectedBookingId # NoSelection
        /\ calendar[r].bars[i].id = selectedBookingId}

\* C13: whatever the sequence of loads, navigation, filter changes, clicks
\* and resizes, the selected id is none or the id of a booking that passes
\* the current filter, and at most one bar is drawn as selected.
SelectionAmongFiltered ==
    /\ \/ selectedBookingId = NoSelection
       \/ \E i \in 1..Len(getFilteredBookings(bookings, filter)) :
              getFilteredBookings(bookings, filter)[i].id = selectedBookingId
    /\ Cardinality(HighlightedBars) <= 1

\* C13 witness: a selection that is still held after the filter was narrowed,
\* the window was moved and a resize timer has re-rendered.
SelectionKeptThroughRenders ==
    /\ selectedBookingId # NoSelection
    /\ filter = Str_booking
    /\ Len(getFilteredBookings(bookings, filter)) < Len(bookings)
    /\ currentDate # LocalMidnight(tz, Today.y, Today.m, 1)
    /\ resizeTimeout # 0
    /\ timers = {}


\* C14: a selected booking always has a bar in the window: once month
\* navigation leaves it without one, the render has cleared the selection and
\* hidden the details panel.
SelectionClearedOutsideWindow ==
    (selectedBookingId # NoSelection \/ ~details.hidden) => HighlightedBars # {}


-----------------------------------------------------------------------------
(* server.js: the two bookings endpoints under any configuration *)

\* generateSampleBookings(roomName): numBookings bookings, the i-th made from
\* the i-th draws of Math.random (startOffset, duration, source), the draws
\* repeating when there are fewer of them than bookings.
generateSampleBookings(zone, today, roomName, numBookings, draws) ==
    [i \in 1..numBookings |->
        LET d         == draws[((i - 1) % Len(draws)) + 1]
            startDate == AddLocalDays(zone, today, d.startOffset)
            endDate   == AddLocalDays(zone, startDate, d.duration)
        IN  [id        |-> <<roomName, i - 1>>,
             source    |-> d.source,
             room      |-> roomName,
             startDate |-> toISOString(startDate),
             endDate   |-> toISOString(endDate)]]

\* The sample bookings of the rooms i.. of the configuration.
RECURSIVE sampleRooms(_, _)
sampleRooms(req, i) ==
    IF i > Len(req.config) THEN <<>>
    ELSE generateSampleBookings(req.zone, req.today, req.config[i].name,
                                req.numBookings, req.draws)
         \o sampleRooms(req, i + 1)

\* Object.keys(ROOM_CONFIG) of a configuration
roomNamesOf(config) == [i \in 1..Len(config) |-> config[i].name]

\* hasBeds24Clients(): clients exist exactly when a token is configured.
hasBeds24Clients(req) == req.token

\* GET /api/bookings: the response and the number of requests sent upstream.
getApiBookings(req) ==
    [status     |-> 200,
     success    |-> TRUE,
     bookings   |-> IF hasBeds24Clients(req)
                    THEN fetchRooms(req.config, 1, req.feed, req.down, req.honoured)
                    ELSE sampleRooms(req, 1),
     rooms      |-> roomNamesOf(req.config),
     dataSource |-> IF hasBeds24Clients(req) THEN "beds24" ELSE "sample",
     upstreamCalls |-> IF hasBeds24Clients(req) THEN Len(req.config) ELSE 0]

\* A route parameter taken as it is written.
routeRoomNameExact(room) == room

\* const roomName = req.params.room.toLowerCase()
routeRoomName(room) == toLowerCase(room)

\* GET /api/bookings/:room
getApiBookingsRoom(req, room) ==
    LET roomName == routeRoomName(room)
    IN  IF ~\E i \in 1..Len(req.config) : req.config[i].name = roomName
        THEN [status |-> 404, success |-> FALSE, bookings |-> <<>>, rooms |-> <<>>,
              dataSource |-> "", upstreamCalls |-> 0]
        ELSE [status     |-> 200,
              success    |-> TRUE,
              bookings   |-> IF hasBeds24Clients(req)
                             THEN SelectSeq(fetchRooms(req.config, 1, req.feed, req.down,
                                                       req.honoured),
                                            LAMBDA b : b.room = roomName)
                             ELSE generateSampleBookings(req.zone, req.today, roomName,
                                                         req.numBookings, req.draws),
              rooms      |-> <<roomName>>,
              dataSource |-> IF hasBeds24Clients(req) THEN "beds24" ELSE "sample",
              upstreamCalls |-> IF hasBeds24Clients(req) THEN Len(req.config) ELSE 0]

\* The requests of the server runs.  A request carries the environment it is
\* served in: whether BEDS24_API_TOKEN is set, the room IDs, what Beds24
\* holds, the rooms whose fetch fails, whether Beds24 applies the roomId
\* parameter, and for the sample data the server's zone, clock and draws.
Str_Maria == <<"M", "a", "r", "i", "a">>

Routes == {<<>>, <<Str_jason>>, <<Str_smile>>, <<Str_Maria>>, <<Str_website>>}

RoomConfigs ==
    {<< [name |-> Str_jason, roomId |-> a],
        [name |-> Str_smile, roomId |-> b],
        [name |-> Str_maria, roomId |-> c] >> :
       a \in {NoRoomId, 101}, b \in {NoRoomId, 102}, c \in {NoRoomId, 103}}

\* Stays of rooms 101 and 102 and of a room (104) no configuration names.
ServerStays ==
    << Stay(101, DateText(2024, 1, 1), DateText(2024, 1, 10), Str_airbnb),
       Stay(102, DateText(2024, 1, 3), DateText(2024, 1, 8), Str_booking),
       Stay(104, DateText(2024, 1, 5), DateText(2024, 1, 9), Str_airbnb) >>

ServerFeeds ==
    LET picks == {p \in BoundedSeq(1..Len(ServerStays), MaxBookings) :
                    \A i, j \in 1..Len(p) : i < j => p[i] < p[j]}
    IN  {Feed([i \in 1..Len(p) |-> ServerStays[p[i]]]) : p \in picks}

DownSets == {{}, {1}, {2, 3}, {1, 2, 3}}

ServerZones == {ZoneUTC, ZoneAthens}

\* new Date() when the sample is generated: a winter morning, and half past
\* two at night shortly before the clocks change in spring and in autumn.
ServerClocks ==
    {DateUTC(2024, 1, 15, 10 * 60), DateUTC(2024, 3, 30, 30), DateUTC(2024, 10, 19, 23 * 60 + 30)}

Draw(startOffset, duration, source) ==
    [startOffset |-> startOffset, duration |-> duration, source |-> source]

SampleDraws ==
    {<<Draw(0, 2, Str_airbnb)>>, <<Draw(89, 8, Str_booking)>>,
     <<Draw(0, 8, Str_airbnb), Draw(1, 2, Str_booking)>>}

Beds24Requests ==
    [token : {TRUE}, config : RoomConfigs, feed : ServerFeeds, down : DownSets,
     honoured : BOOLEAN, route : Routes, zone : {ZoneUTC},
     today : {DateUTC(2024, 1, 15, 10 * 60)}, numBookings : {5},
     draws : {<<Draw(0, 2, Str_airbnb)>>}]

SampleRequests ==
    [token : {FALSE}, config : RoomConfigs, feed : {<<>>}, down : {{}},
     honoured : {TRUE}, route : Routes, zone : ServerZones,
     today : ServerClocks, numBookings : {5, 9}, draws : SampleDraws]

InitServer ==
    /\ tz = ZoneUTC
    /\ InitCalendar
    /\ input \in Beds24Requests \cup SampleRequests
    /\ output = <<>>

\* One request served.
ServeBookings ==
    /\ output = <<>>
    /\ output' = << IF input.route = <<>> THEN getApiBookings(input)
                    ELSE getApiBookingsRoom(input, input.route[1]) >>
    /\ UNCHANGED <<tz, currentDate, bookings, rooms, selectedRoom, filter, selectedBookingId,
                   calendar, fetchState, upstream, details, resizeVars, input>>

NextServer == ServeBookings

SpecServer == InitServer /\ [][NextServer]_vars

\* The response of the request served and the request itself.
response == output[1]

\* C15: when a fetch from Beds24 fails while a request is served, the
\* endpoint answers success: false.
UpstreamFailureAnswersFailure ==
    (output # <<>> /\ input.token /\ response.upstreamCalls > 0 /\ input.down # {})
        => ~response.success


\* The time value an ISO timestamp of a response names.
isoTime(text) == DateUTC(text.y, text.m, text.d, text.min)

\* The rooms the served route covers.
routeRooms ==
    IF input.route = <<>> THEN {input.config[i].name : i \in 1..Len(input.config)}
    ELSE {toLowerCase(input.route[1])}

\* C16: without a token both endpoints answer success: true from sample data
\* and send nothing upstream, with bookings for every room of the route, each
\* under its room's name and ending 2 to 8 days after it starts; with a token
\* the data source is "beds24" and only records of the feed are returned.
SampleDataWithoutToken ==
    (output # <<>> /\ response.status # 404) =>
        IF ~input.token
        THEN /\ response.success
             /\ response.dataSource = "sample"
             /\ response.upstreamCalls = 0
             /\ \A r \in routeRooms :
                    \E i \in 1..Len(response.bookings) : response.bookings[i].room = r
             /\ \A i \in 1..Len(response.bookings) :
                    LET b == response.bookings[i]
                    IN  /\ b.room \in routeRooms
                        /\ isoTime(b.endDate) - isoTime(b.startDate) >= 2 * MinutesPerDay
                        /\ isoTime(b.endDate) - isoTime(b.startDate) <= 8 * MinutesPerDay
        ELSE /\ response.dataSource = "beds24"
             /\ \A i \in 1..Len(response.bookings) :
                    \E k \in 1..Len(input.feed) :
                        response.bookings[i].id = input.feed[k].bookId


\* The room ID the configuration gives to the room of that name.
configuredRoomId(name) ==
    LET i == CHOOSE k \in 1..Len(input.config) : input.config[k].name = name
    IN  input.config[i].roomId

\* The room identifier Beds24 holds for the record with that bookId.
upstreamRoomId(bookId) ==
    LET k == CHOOSE n \in 1..Len(input.feed) : input.feed[n].bookId = bookId
    IN  input.feed[k].roomId

\* C17: whatever room IDs are configured or left unset, every booking that
\* fetchBeds24Bookings lists under a room has, upstream, the room identifier
\* configured for that room.
RoomsListOnlyTheirRecords ==
    (output # <<>> /\ input.token /\ input.route = <<>>) =>
        \A i \in 1..Len(response.bookings) :
            upstreamRoomId(response.bookings[i].id)
                = configuredRoomId(response.bookings[i].room)


-----------------------------------------------------------------------------
(* Party size and price from Beds24 to the details panel *)

\* JavaScript values of a record's numeric fields: undefined, null, a number
\* (NaN apart), a string.
JsUndefined == [t |-> "undefined", n |-> 0, s |-> ""]
JsNull      == [t |-> "null", n |-> 0, s |-> ""]
JsNaN       == [t |-> "NaN", n |-> 0, s |-> ""]
JsNum(n)    == [t |-> "number", n |-> n, s |-> ""]
JsStr(s)    == [t |-> "string", n |-> 0, s |-> s]

\* a || b
JsOr(a, b) ==
    IF \/ a.t \in {"undefined", "null", "NaN"}
       \/ (a.t = "number" /\ a.n = 0)
       \/ (a.t = "string" /\ a.s = "")
    THEN b ELSE a

\* a ?? b
Nullish(a, b) == IF a.t \in {"undefined", "null"} THEN b ELSE a

\* Number(s) of the strings the model sends: an empty string is 0, a
\* decimal numeral its value, anything else NaN.
NumberOfString(s) ==
    CASE s = ""  -> JsNum(0)
      [] s = "3" -> JsNum(3)
      [] OTHER   -> JsNaN

\* Number(value)
ToNumber(value) ==
    CASE value.t = "undefined" -> JsNaN
      [] value.t = "null"      -> JsNum(0)
      [] value.t = "number"    -> value
      [] value.t = "NaN"       -> JsNaN
      [] value.t = "string"    -> NumberOfString(value.s)

\* JSON.stringify then JSON.parse of a property: NaN becomes null, an
\* undefined property is left out and reads as undefined again.
jsonValue(value) == IF value.t = "NaN" THEN JsNull ELSE value

\* processBookings: the party and price fields of a processed booking.
processBookingParty(booking) ==
    [price    |-> booking.price,
     numAdult |-> JsOr(booking.numAdult, booking.adults),
     numChild |-> JsOr(booking.numChild, booking.children),
     rawData  |-> booking]

\* res.json(...) on the server, response.json() in the browser.
jsonBooking(b) ==
    [price    |-> jsonValue(b.price),
     numAdult |-> jsonValue(b.numAdult),
     numChild |-> jsonValue(b.numChild),
     rawData  |-> [f \in DOMAIN b.rawData |-> jsonValue(b.rawData[f])]]

\* What the panel shows in a field.
NotProvided == [kind |-> "Not provided", n |-> 0, s |-> ""]
ShownNumber(n) == [kind |-> "number", n |-> n, s |-> ""]
ShownText(s) == [kind |-> "text", n |-> 0, s |-> s]

\* formatCountValue
formatCountValue(value) ==
    IF value.t \in {"undefined", "null"} THEN NotProvided
    ELSE IF ToNumber(value).t = "number" THEN ShownNumber(ToNumber(value).n)
    ELSE IF value.t = "NaN" THEN ShownText("NaN")
    ELSE ShownText(value.s)

\* getAdultsCount, getChildrenCount
getAdultsCount(booking) ==
    formatCountValue(Nullish(booking.numAdult,
                             Nullish(booking.rawData.numAdult, booking.rawData.adults)))

getChildrenCount(booking) ==
    formatCountValue(Nullish(booking.numChild,
                             Nullish(booking.rawData.numChild, booking.rawData.children)))

\* formatChargesEUR: the amount it formats as EUR, or "Not provided".
formatChargesEUR(booking) ==
    LET amount == ToNumber(Nullish(booking.price, booking.rawData.price))
    IN  IF amount.t # "number" THEN NotProvided ELSE ShownNumber(amount.n)

\* The values Beds24 sends in a numeric field.
FieldValues == {JsUndefined, JsNull, JsNum(0), JsNum(2), JsStr(""), JsStr("abc"), JsStr("3")}

ChildValues == {JsUndefined, JsNum(0), JsNum(1)}

PartyRecords ==
    [numAdult : FieldValues, adults : FieldValues, price : FieldValues,
     numChild : ChildValues, children : ChildValues]

InitDetails ==
    /\ tz = ZoneUTC
    /\ InitCalendar
    /\ input \in PartyRecords
    /\ output = <<>>

\* The record processed, sent to the browser, selected and shown.
ShowDetails ==
    /\ output = <<>>
    /\ LET b == jsonBooking(processBookingParty(input))
       IN  output' = << [adults   |-> getAdultsCount(b),
                         children |-> getChildrenCount(b),
                         charges  |-> formatChargesEUR(b)] >>
    /\ UNCHANGED <<tz, currentDate, bookings, rooms, selectedRoom, filter, selectedBookingId,
                   calendar, fetchState, upstream, details, resizeVars, input>>

NextDetails == ShowDetails

SpecDetails == InitDetails /\ [][NextDetails]_vars

\* What the claim asks of a field whose upstream value is v and which is
\* shown as `shown`.
ShownAsClaimed(v, shown) ==
    /\ (v.t \in {"undefined", "null"} \/ ToNumber(v).t # "number") => shown = NotProvided
    /\ (v.t = "number" /\ v.n = 0) => shown = ShownNumber(0)

\* C18: a party size or price that Beds24 leaves out, or that is no finite
\* number, is shown as "Not provided"; one that is 0 is shown as zero.  (For
\* a party size, the upstream value is the one of numAdult / adults, or of
\* numChild / children, when the other of the two is left out.)
AbsentNotProvidedZeroShown ==
    output # <<>> =>
        /\ ShownAsClaimed(input.price, output[1].charges)
        /\ input.adults = JsUndefined => ShownAsClaimed(input.numAdult, output[1].adults)
        /\ input.numAdult = JsUndefined => ShownAsClaimed(input.adults, output[1].adults)
        /\ input.children = JsUndefined => ShownAsClaimed(input.numChild, output[1].children)
        /\ input.numChild = JsUndefined => ShownAsClaimed(input.children, output[1].children)


-----------------------------------------------------------------------------
(* The resize debounce (stated of Spec) *)

\* C19: at most one resize timer is pending; it is the one resizeTimeout
\* names, armed by the last viewport event and due resizeDelay ms after it,
\* so a burst of events ends in one render, and what the calendar shows is
\* the rendering of the window, filter and bookings of that moment.
ResizeDebounced ==
    /\ Cardinality(timers) <= 1
    /\ (burst > 0) <=> (timers # {})
    /\ \A t \in timers : t.id = resizeTimeout /\ t.remaining + sinceResize = resizeDelay
    /\ calendar # <<>> => calendar = renderedRows(tz, bookings, rooms, filter, currentDate)

\* C19 witness: two viewport events in a row, then the one render, made
\* resizeDelay ms after the second event on a loaded and filtered calendar.
ResizeBurstRenderedOnce ==
    /\ timers = {}
    /\ burst = 0
    /\ resizeTimeout = 2
    /\ sinceResize = resizeDelay
    /\ fetchState = "loaded"
    /\ filter = Str_airbnb
    /\ calendar # <<>>


-----------------------------------------------------------------------------
(* The height of a room row (stated of SpecLayout) *)

\* The highest lane index among the bars of row r, 0 for a row without bars.
maxLaneIndex(r) ==
    IF calendar[r].bars = <<>> THEN 0
    ELSE CHOOSE m \in {calendar[r].bars[i].laneIndex : i \in 1..Len(calendar[r].bars)} :
            \A i \in 1..Len(calendar[r].bars) : calendar[r].bars[i].laneIndex <= m

\* C20: a row is max(60, 60 + 38 * highest lane index) px high, 60 px when
\* it shows no booking, and every bar, 30 px high from top = 15 + 38 * lane,
\* lies within that height.
RowHeightHoldsEveryBar ==
    \A r \in Rows :
        /\ calendar[r].calendarHeight = Max(60, 60 + 38 * maxLaneIndex(r))
        /\ calendar[r].bars = <<>> => calendar[r].calendarHeight = 60
        /\ \A i \in 1..Len(calendar[r].bars) :
              /\ calendar[r].bars[i].top = 15 + 38 * calendar[r].bars[i].laneIndex
              /\ calendar[r].bars[i].top >= 0
              /\ calendar[r].bars[i].top + 30 <= calendar[r].calendarHeight

\* C20 witness: a row of three lanes, 136 px high, next to a row without bars.
TallRowBesideEmptyRow ==
    /\ \E r \in Rows :
          /\ calendar[r].lanes = 3
          /\ calendar[r].calendarHeight = 136
          /\ \E i \in 1..Len(calendar[r].bars) : calendar[r].bars[i].top = 91
    /\ \E r \in Rows : calendar[r].bars = <<>> /\ calendar[r].calendarHeight = 60


-----------------------------------------------------------------------------
(* renderCalendar over bookings with missing or malformed fields *)

\* renderRoomRow's first filter calls b.room.toLowerCase() on every booking
\* it is given: a booking without a room makes it throw a TypeError.
renderRoomRowThrows(list) ==
    \E i \in 1..Len(list) : list[i].room = Undefined

\* renderCalendar as a call: whether it threw, and the rows it wrote if not.
renderCalendarCall(zone, list, roomList, flt, current) ==
    IF roomList # <<>> /\ renderRoomRowThrows(getFilteredBookings(list, flt))
    THEN [threw |-> TRUE,  rows |-> <<>>]
    ELSE [threw |-> FALSE, rows |-> renderedRows(zone, list, roomList, flt, current)]

\* Bookings as loadBookings stores them: a complete one, one without a
\* start date, one whose end date did not parse, one without a source, one
\* without a room.
ClientBooking(id, source, room, startDate, endDate) ==
    [id |-> id, source |-> source, room |-> room, startDate |-> startDate, endDate |-> endDate]

PartialBookings ==
    << ClientBooking(1, Str_airbnb, Str_jason,
                     parseIsoDate(DateText(2024, 1, 3)), parseIsoDate(DateText(2024, 1, 8))),
       ClientBooking(2, Str_booking, Str_jason,
                     parseIsoDate(AbsentText), parseIsoDate(DateText(2024, 1, 8))),
       ClientBooking(3, Str_airbnb, Str_smile,
                     parseIsoDate(DateText(2024, 1, 5)), parseIsoDate(GarbageText)),
       ClientBooking(4, Undefined, Str_maria,
                     parseIsoDate(DateText(2024, 1, 6)), parseIsoDate(DateText(2024, 1, 9))),
       ClientBooking(5, Str_airbnb, Undefined,
                     parseIsoDate(DateText(2024, 1, 4)), parseIsoDate(DateText(2024, 1, 7))) >>

PartialLists ==
    {[i \in 1..Len(p) |-> PartialBookings[p[i]]] :
        p \in BoundedSeq(1..Len(PartialBookings), MaxBookings)}

InitRender ==
    /\ tz = ZoneAthens
    /\ InitCalendar
    /\ input \in PartialLists
    /\ output = <<>>

\* renderCalendar called with the list as this.bookings.
RenderList ==
    /\ output = <<>>
    /\ output' = << renderCalendarCall(tz, input, rooms, filter, currentDate) >>
    /\ UNCHANGED <<tz, currentDate, bookings, rooms, selectedRoom, filter, selectedBookingId,
                   calendar, fetchState, upstream, details, resizeVars, input>>

NextRender == RenderList

SpecRender == InitRender /\ [][NextRender]_vars

\* C21: whatever fields the bookings lack, renderCalendar returns normally
\* and draws exactly the bookings of the list that have both dates.
BadDataRendersTheRest ==
    output # <<>> =>
        /\ ~output[1].threw
        /\ \A i \in 1..Len(input) :
              (input[i].startDate # NullDate /\ input[i].endDate # NullDate)
                 => \E r \in 1..Len(output[1].rows) :
                      \E k \in 1..Len(output[1].rows[r].bars) :
                          output[1].rows[r].bars[k].id = input[i].id


-----------------------------------------------------------------------------
(* Booking ids within one response (stated of SpecServer) *)

\* C22: in the response of GET /api/bookings no two bookings carry the same
\* id, whatever the room IDs and whether the data is Beds24's or the sample.
IdsUniqueWithinLoad ==
    (output # <<>> /\ input.route = <<>>) =>
        \A i, j \in 1..Len(response.bookings) :
            i # j => response.bookings[i].id # response.bookings[j].id


-----------------------------------------------------------------------------
(* Beds24API.extractGuestName over the records it may be given *)

Str_Guest == <<"G", "u", "e", "s", "t">>
Str_Ann == <<"A", "n", "n">>
Str_Lee == <<"L", "e", "e">>

\* An extraction that returns the guest field without the placeholder.
extractGuestNameNoPlaceholder(booking) ==
    IF Truthy(booking.guestName) THEN booking.guestName
    ELSE LET firstName == OrElse(booking.firstName, OrElse(booking.guestFirstName, EmptyStr))
             lastName  == OrElse(booking.lastName, OrElse(booking.guestLastName, EmptyStr))
         IN  IF Truthy(firstName) /\ Truthy(lastName) THEN firstName \o <<" ">> \o lastName
             ELSE IF Truthy(firstName) THEN firstName
             ELSE IF Truthy(lastName) THEN lastName
             ELSE booking.guest

\* extractGuestName
extractGuestName(booking) ==
    IF Truthy(booking.guestName) THEN booking.guestName
    ELSE LET firstName == OrElse(booking.firstName, OrElse(booking.guestFirstName, EmptyStr))
             lastName  == OrElse(booking.lastName, OrElse(booking.guestLastName, EmptyStr))
         IN  IF Truthy(firstName) /\ Truthy(lastName) THEN firstName \o <<" ">> \o lastName
             ELSE IF Truthy(firstName) THEN firstName
             ELSE IF Truthy(lastName) THEN lastName
             ELSE OrElse(booking.guest, Str_Guest)

\* The texts a name field holds: absent, empty, or a name.
NameTexts == {Undefined, EmptyStr, Str_Ann, Str_Lee}

GuestRecords ==
    [guestName : NameTexts, firstName : NameTexts, guestFirstName : NameTexts,
     lastName : NameTexts, guestLastName : NameTexts, guest : NameTexts]

InitGuest ==
    /\ tz = ZoneUTC
    /\ InitCalendar
    /\ input \in GuestRecords
    /\ output = <<>>

\* extractGuestName is called on the record.
ExtractName ==
    /\ output = <<>>
    /\ output' = <<extractGuestName(input)>>
    /\ UNCHANGED <<tz, currentDate, bookings, rooms, selectedRoom, filter, selectedBookingId,
                   calendar, fetchState, upstream, details, resizeVars, input>>

NextGuest == ExtractName

SpecGuest == InitGuest /\ [][NextGuest]_vars

\* A field that holds a non-empty text.
Given(text) == text \notin {Undefined, EmptyStr}

\* The first and the last name of a record: the plain field, else the guest* one.
firstOf(rec) == IF Given(rec.firstName) THEN rec.firstName ELSE rec.guestFirstName
lastOf(rec) == IF Given(rec.lastName) THEN rec.lastName ELSE rec.guestLastName

\* C23: the name extracted is never empty or absent; it is the guestName when
\* that is given, else "first last" or the one of the two that is given, else
\* the guest field, else "Guest".
GuestNameNeverEmpty ==
    output # <<>> =>
        /\ Given(output[1])
        /\ Given(input.guestName) => output[1] = input.guestName
        /\ (~Given(input.guestName) /\ Given(firstOf(input)) /\ Given(lastOf(input)))
              => output[1] = firstOf(input) \o <<" ">> \o lastOf(input)
        /\ (~Given(input.guestName) /\ Given(firstOf(input)) /\ ~Given(lastOf(input)))
              => output[1] = firstOf(input)
        /\ (~Given(input.guestName) /\ ~Given(firstOf(input)) /\ Given(lastOf(input)))
              => output[1] = lastOf(input)
        /\ (~Given(input.guestName) /\ ~Given(firstOf(input)) /\ ~Given(lastOf(input)))
              => output[1] = (IF Given(input.guest) THEN input.guest ELSE Str_Guest)

\* C23 witness: a record without a guestName, first or last name and with an
\* empty guest field, named "Guest".
PlaceholderUsed ==
    /\ output = <<Str_Guest>>
    /\ input.guest = EmptyStr
    /\ input.guestName = EmptyStr
    /\ input.firstName = Undefined


-----------------------------------------------------------------------------
(* First-fit lane choice (stated of SpecLayout) *)

\* The bars of row r placed before its k-th bar in lane l.
EarlierInLane(r, k, l) ==
    {j \in 1..(k - 1) : calendar[r].bars[j].laneIndex = l}

\* The end offset lane l of row r has when the k-th bar is placed: that of
\* the last bar put in it (0 for a lane not yet opened).
laneEndBefore(r, k, l) ==
    IF EarlierInLane(r, k, l) = {} THEN 0
    ELSE LET j == CHOOSE x \in EarlierInLane(r, k, l) :
                      \A y \in EarlierInLane(r, k, l) : y <= x
         IN  calendar[r].bars[j].startOffset + calendar[r].bars[j].duration

\* The number of lanes row r has opened when its k-th bar is placed.
lanesBefore(r, k) ==
    Cardinality({calendar[r].bars[j].laneIndex : j \in 1..(k - 1)})

\* C24: bars are placed in ascending check-in order, each in the lowest lane
\* whose end offset is at most the bar's startOffset, or in a new lane numbered
\* by the lanes opened so far when no lane is free; so the lanes in use are
\* 0..k-1 and the end offset of a lane never decreases.
LaneChoiceIsFirstFit ==
    \A r \in Rows :
        /\ \A k \in 1..Len(calendar[r].bars) :
              LET bar == calendar[r].bars[k]
              IN  /\ k > 1 => calendar[r].bars[k - 1].checkIn <= bar.checkIn
                  /\ bar.laneIndex \in 0..lanesBefore(r, k)
                  /\ bar.laneIndex < lanesBefore(r, k)
                        => laneEndBefore(r, k, bar.laneIndex) <= bar.startOffset
                  /\ \A l \in 0..(bar.laneIndex - 1) :
                        /\ l < lanesBefore(r, k)
                        /\ laneEndBefore(r, k, l) > bar.startOffset
                  /\ bar.laneIndex < lanesBefore(r, k)
                        => laneEndBefore(r, k, bar.laneIndex) <= bar.startOffset + bar.duration
        /\ {calendar[r].bars[k].laneIndex : k \in 1..Len(calendar[r].bars)}
              = 0..(calendar[r].lanes - 1)

\* C24 witness: a third bar that found both lanes free and took lane 0.
LowestOfTwoFreeLanesTaken ==
    \E r \in Rows :
        /\ Len(calendar[r].bars) = 3
        /\ calendar[r].bars[2].laneIndex = 1
        /\ calendar[r].bars[3].laneIndex = 0
        /\ laneEndBefore(r, 3, 0) <= calendar[r].bars[3].startOffset
        /\ laneEndBefore(r, 3, 1) <= calendar[r].bars[3].startOffset


-----------------------------------------------------------------------------
(* Room names: the room endpoint and the rows of the calendar *)

Str_Jason == <<"J", "a", "s", "o", "n">>

\* Bookings as the browser holds them, their rooms written in either case.
RoomCaseBookings ==
    << ClientBooking(1, Str_airbnb, Str_Jason,
                     parseIsoDate(DateText(2024, 1, 3)), parseIsoDate(DateText(2024, 1, 8))),
       ClientBooking(2, Str_booking, Str_jason,
                     parseIsoDate(DateText(2024, 1, 5)), parseIsoDate(DateText(2024, 1, 9))),
       ClientBooking(3, Str_airbnb, Str_smile,
                     parseIsoDate(DateText(2024, 1, 4)), parseIsoDate(DateText(2024, 1, 7))) >>

RoomCaseLists ==
    LET picks == {p \in BoundedSeq(1..Len(RoomCaseBookings), MaxBookings) :
                    \A i, j \in 1..Len(p) : i < j => p[i] < p[j]}
    IN  {[i \in 1..Len(p) |-> RoomCaseBookings[p[i]]] : p \in picks}

\* Requests for one room, with every room ID set or none, and the list the
\* browser is showing.
RoomRequests ==
    [token : BOOLEAN,
     config : {c \in RoomConfigs : \A i, j \in 1..Len(c) :
                                      (c[i].roomId = NoRoomId) = (c[j].roomId = NoRoomId)},
     feed : ServerFeeds, down : {{}, {1}}, honoured : BOOLEAN,
     route : Routes \ {<<>>}, zone : {ZoneUTC},
     today : {DateUTC(2024, 1, 15, 10 * 60)}, numBookings : {5},
     draws : {<<Draw(0, 2, Str_airbnb)>>},
     list : RoomCaseLists]

InitRooms ==
    /\ tz = ZoneUTC
    /\ InitCalendar
    /\ input \in RoomRequests
    /\ output = <<>>

\* GET /api/bookings/:room served.
ServeRoom ==
    /\ output = <<>>
    /\ output' = << getApiBookingsRoom(input, input.route[1]) >>
    /\ UNCHANGED <<tz, currentDate, bookings, rooms, selectedRoom, filter, selectedBookingId,
                   calendar, fetchState, upstream, details, resizeVars, input>>

\* renderCalendar with the list as this.bookings.
RenderRooms ==
    /\ bookings = <<>>
    /\ bookings' = input.list
    /\ renderCalendar(input.list, rooms, filter, currentDate)
    /\ UNCHANGED <<tz, currentDate, rooms, selectedRoom, filter, fetchState, upstream, resizeVars,
                   input, output>>

NextRooms == ServeRoom \/ RenderRooms

SpecRooms == InitRooms /\ [][NextRooms]_vars

\* C25: a route that names a configured room in any case is answered with
\* success and only that room's bookings; any other route with 404,
\* success: false, nothing fetched and nothing generated; and a row of the
\* calendar shows a booking exactly when their rooms are equal ignoring case.
RoomsMatchIgnoringCase ==
    /\ output # <<>> =>
          IF \E i \in 1..Len(input.config) :
                 input.config[i].name = toLowerCase(input.route[1])
          THEN /\ response.status = 200
               /\ response.success
               /\ \A i \in 1..Len(response.bookings) :
                      response.bookings[i].room = toLowerCase(input.route[1])
          ELSE /\ response.status = 404
               /\ ~response.success
               /\ response.upstreamCalls = 0
               /\ response.bookings = <<>>
    /\ \A r \in Rows : \A i \in 1..Len(bookings) :
          (\E k \in 1..Len(calendar[r].bars) : calendar[r].bars[k].id = bookings[i].id)
             <=> toLowerCase(bookings[i].room) = toLowerCase(calendar[r].room)

\* C25 witness: "Maria" answered for maria, while the row of jason shows a
\* booking whose room is written "Jason".
CapitalisedRoomServedAndShown ==
    /\ output # <<>>
    /\ input.route = <<Str_Maria>>
    /\ response.success
    /\ \E i \in 1..Len(bookings) :
          /\ bookings[i].room = Str_Jason
          /\ \E k \in 1..Len(calendar[1].bars) : calendar[1].bars[k].id = bookings[i].id


-----------------------------------------------------------------------------
(* Month navigation with every value the month picker delivers *)

\* jumpToMonth(''), the picker cleared: ''.split('-') is [''], parseInt gives
\* NaN for the year and the month, and new Date(NaN, NaN, 1) is an Invalid Date.
JumpToMonthCleared ==
    /\ currentDate' = InvalidDate
    /\ renderCalendar(bookings, rooms, filter, InvalidDate)
    /\ UNCHANGED <<tz, bookings, rooms, selectedRoom, filter, fetchState, upstream, resizeVars,
                   input, output>>

NextMonth ==
    \/ LoadBookingsFrom(UiFeeds)
    \/ ChangeMonth(-1)
    \/ ChangeMonth(1)
    \/ \E mi \in PickedMonths : JumpToMonth(mi \div 12, (mi % 12) + 1)
    \/ JumpToMonthCleared
    \/ \E value \in Filters : SetFilter(value)

SpecMonth == Init /\ [][NextMonth]_vars

\* C26: currentDate is always a valid date, local midnight of the first day
\* of a month; the rows drawn span 365 day columns; and a month forward then
\* a month back is where one started.
MonthAlwaysValid ==
    /\ currentDate # InvalidDate
    /\ LET c == CivilFromDays(LocalDay(tz, currentDate))
       IN  c.d = 1 /\ currentDate = LocalMidnight(tz, c.y, c.m, 1)
    /\ \A r \in Rows : calendar[r].totalDays = timelineDays
    /\ monthChanged(tz, monthChanged(tz, currentDate, 1), -1) = currentDate


-----------------------------------------------------------------------------
(* The initial load racing with the user's changes *)

\* The room selector's change listener.
SelectRoom(value) ==
    /\ selectedRoom' = value
    /\ renderCalendar(bookings, rooms, filter, currentDate)
    /\ UNCHANGED <<tz, currentDate, bookings, rooms, filter, fetchState, upstream,
                   resizeVars, input, output>>

NextLoad ==
    \/ LoadBookingsFrom(UiFeeds)
    \/ LoadBookingsFails
    \/ ChangeMonth(-1)
    \/ ChangeMonth(1)
    \/ \E mi \in PickedMonths : JumpToMonth(mi \div 12, (mi % 12) + 1)
    \/ JumpToMonthCleared
    \/ \E value \in Filters : SetFilter(value)
    \/ \E i \in 1..Len(rooms) : SelectRoom(rooms[i])
    \/ HandleViewportChange
    \/ \E d \in TickSteps : Tick(d)
    \/ ResizeTimerFires

SpecLoad == Init /\ [][NextLoad]_vars

\* C27: once the load has been answered, whatever was changed while it was
\* in flight or since, the month is a month of the calendar and what is shown
\* is the rendering of the loaded bookings under the filter and month in force.
LoadNeverLeavesStaleCalendar ==
    fetchState = "loaded" =>
        /\ currentDate # InvalidDate
        /\ calendar = renderedRows(tz, bookings, rooms, filter, currentDate)

=============================================================================
